---- MODULE Spec2Model ----
(***************************************************************************)
(* Model of 1brc.rs (src/src/main.rs): the partition / scan / merge /      *)
(* print pipeline of main, process_chunk, merge_results, upsert_entry,     *)
(* insert_reading, parse_i16 and write_i16_as_float.                       *)
(*                                                                         *)
(* Bytes are their ASCII codes.  Offsets into the buffer are 0-based as in *)
(* the source; TLA+ sequences are 1-based, so byte i of mem is mem[i + 1]. *)
(***************************************************************************)
EXTENDS Integers, Sequences, FiniteSets, TLC

\* ------------------------------------------------------------------------
\* Byte literals of the source.
\* ------------------------------------------------------------------------
NL == 10

SEMI == 59

MINUS == 45

DOT == 46

ZERO == 48

SLASH == 47

COMMA == 44

EQUALS == 61

LBRACE == 123

RBRACE == 125

\* const THREADS: usize = 10
THREADS == 10

\* ------------------------------------------------------------------------
\* Machine arithmetic.
\* ------------------------------------------------------------------------
\* i16 arithmetic of a release build: two's complement wrap-around.
Wrap16(x) == ((x + 32768) % 65536) - 32768

Min2(a, b) == IF a <= b THEN a ELSE b

Max2(a, b) == IF a >= b THEN a ELSE b

Abs(x) == IF x < 0 THEN -x ELSE x

\* ------------------------------------------------------------------------
\* Entry and the Statistics Table (AHashMap<&[u8], Entry>): a function from
\* the keys present (byte sequences, compared by content) to entries.
\* ------------------------------------------------------------------------
Entry(mn, mx, sm, cnt) == [min |-> mn, max |-> mx, sum |-> sm, count |-> cnt]

EmptyTable == [k \in {} |-> Entry(0, 0, 0, 0)]

\* cities.insert(city, entry) for a key that is absent.
TableInsert(cities, city, entry) ==
    [k \in (DOMAIN cities) \cup {city} |-> IF k = city THEN entry ELSE cities[k]]

\* insert_reading with the minimum updated by max instead of min.
insert_reading_min_by_max(cities, city, reading) ==
    IF city \in DOMAIN cities
    THEN [cities EXCEPT ![city] =
            Entry(Max2(@.min, reading), Max2(@.max, reading),
                  @.sum + reading, @.count + 1)]
    ELSE TableInsert(cities, city, Entry(reading, reading, reading, 1))

\* insert_reading that never raises the maximum of a key that is present.
insert_reading_keep_max(cities, city, reading) ==
    IF city \in DOMAIN cities
    THEN [cities EXCEPT ![city] =
            Entry(Min2(@.min, reading), @.max, @.sum + reading, @.count + 1)]
    ELSE TableInsert(cities, city, Entry(reading, reading, reading, 1))

\* insert_reading that leaves count alone when the key is present.
insert_reading_no_count(cities, city, reading) ==
    IF city \in DOMAIN cities
    THEN [cities EXCEPT ![city] =
            Entry(Min2(@.min, reading), Max2(@.max, reading),
                  @.sum + reading, @.count)]
    ELSE TableInsert(cities, city, Entry(reading, reading, reading, 1))

\* insert_reading: entry(city).and_modify(..).or_insert_with(..)
insert_reading(cities, city, reading) ==
    IF city \in DOMAIN cities
    THEN [cities EXCEPT ![city] =
            Entry(Min2(@.min, reading), Max2(@.max, reading),
                  @.sum + reading, @.count + 1)]
    ELSE TableInsert(cities, city, Entry(reading, reading, reading, 1))

\* upsert_entry that always inserts, replacing the entry already there.
upsert_entry_overwrite(cities, city, entry) ==
    TableInsert(cities, city, entry)

\* upsert_entry without its else branch: an absent key is not inserted.
upsert_entry_no_insert(cities, city, entry) ==
    IF city \in DOMAIN cities
    THEN [cities EXCEPT ![city] =
            Entry(Min2(@.min, entry.min), Max2(@.max, entry.max),
                  @.sum + entry.sum, @.count + entry.count)]
    ELSE cities

\* upsert_entry that counts a merged entry as one reading.
upsert_entry_count_one(cities, city, entry) ==
    IF city \in DOMAIN cities
    THEN [cities EXCEPT ![city] =
            Entry(Min2(@.min, entry.min), Max2(@.max, entry.max),
                  @.sum + entry.sum, @.count + 1)]
    ELSE TableInsert(cities, city, entry)

\* upsert_entry: componentwise min / max / sum / count, or insert.
upsert_entry(cities, city, entry) ==
    IF city \in DOMAIN cities
    THEN [cities EXCEPT ![city] =
            Entry(Min2(@.min, entry.min), Max2(@.max, entry.max),
                  @.sum + entry.sum, @.count + entry.count)]
    ELSE TableInsert(cities, city, entry)

\* b.into_iter().for_each(|(city, entry)| upsert_entry(&mut a, city, entry)):
\* the entries of b are visited one by one, in the hash map's iteration order.
RECURSIVE MergeEach(_, _, _)
MergeEach(a, b, todo) ==
    IF todo = {} THEN a
    ELSE LET city == CHOOSE k \in todo : TRUE
         IN  MergeEach(upsert_entry(a, city, b[city]), b, todo \ {city})

merge_results(a, b) == MergeEach(a, b, DOMAIN b)

\* ------------------------------------------------------------------------
\* Unchecked reads.  mem is the addressable memory that starts at the
\* buffer: the buffer's bytes followed by whatever is mapped after them.
\* input.get_unchecked(i) yields mem's byte i when i is mapped and faults
\* (the process dies) when it is not.  A result's hi is the highest index
\* read so far (-1: none), its fault tells whether an unmapped index was
\* read.
\* ------------------------------------------------------------------------
Mapped(mem, i) == i < Len(mem)

ByteAt(mem, i) == mem[i + 1]

\* parse_i16, the digit loop: reading *= 10, then either the decimal point
\* and the one fractional digit, or one more integer digit.
RECURSIVE ParseDigits(_, _, _)
ParseDigits(mem, reading, ptr) ==
    LET r10 == Wrap16(reading * 10)
    IN  IF ~Mapped(mem, ptr)
        THEN [fault |-> TRUE, reading |-> r10, ptr |-> ptr, hi |-> ptr]
        ELSE IF ByteAt(mem, ptr) = DOT
             THEN IF ~Mapped(mem, ptr + 1)
                  THEN [fault |-> TRUE, reading |-> r10, ptr |-> ptr,
                        hi |-> ptr + 1]
                  ELSE [fault |-> FALSE,
                        reading |-> Wrap16(r10 + (ByteAt(mem, ptr + 1) - ZERO)),
                        ptr |-> ptr + 2, hi |-> ptr + 1]
             ELSE ParseDigits(mem, Wrap16(r10 + (ByteAt(mem, ptr) - ZERO)),
                              ptr + 1)

\* parse_i16 that steps over the decimal point only, leaving the read head
\* on the fractional digit.
parse_i16_on_fraction(mem, ptr) ==
    IF ~Mapped(mem, ptr)
    THEN [fault |-> TRUE, reading |-> 0, ptr |-> ptr, hi |-> ptr]
    ELSE LET negative == ByteAt(mem, ptr) = MINUS
             d == ParseDigits(mem, 0, IF negative THEN ptr + 1 ELSE ptr)
             e == IF d.fault THEN d ELSE [d EXCEPT !.ptr = @ - 1]
         IN  IF d.fault \/ ~negative THEN e
             ELSE [e EXCEPT !.reading = Wrap16(@ * (-1))]

\* parse_i16(input, &mut ptr): the reading in tenths and the advanced ptr.
parse_i16(mem, ptr) ==
    IF ~Mapped(mem, ptr)
    THEN [fault |-> TRUE, reading |-> 0, ptr |-> ptr, hi |-> ptr]
    ELSE LET negative == ByteAt(mem, ptr) = MINUS
             d == ParseDigits(mem, 0, IF negative THEN ptr + 1 ELSE ptr)
         IN  IF d.fault \/ ~negative THEN d
             ELSE [d EXCEPT !.reading = Wrap16(@ * (-1))]

\* process_chunk, lines 56-61: from a non-zero start, step past the next
\* newline at or after head.
RECURSIVE SkipLine(_, _)
SkipLine(mem, head) ==
    IF ~Mapped(mem, head) THEN [fault |-> TRUE, head |-> head, hi |-> head]
    ELSE IF ByteAt(mem, head) # NL THEN SkipLine(mem, head + 1)
    ELSE [fault |-> FALSE, head |-> head + 1, hi |-> head]

\* process_chunk, lines 72-74: search for the semicolon from tail on.
RECURSIVE FindSemicolon(_, _)
FindSemicolon(mem, tail) ==
    IF ~Mapped(mem, tail) THEN [fault |-> TRUE, tail |-> tail, hi |-> tail]
    ELSE IF ByteAt(mem, tail) # SEMI THEN FindSemicolon(mem, tail + 1)
    ELSE [fault |-> FALSE, tail |-> tail, hi |-> tail]

\* process_chunk, lines 67-92: one record per iteration while head < to.
\* scanned lists the offsets head had at the start of each iteration, i.e.
\* the first byte of every record this call folded.
RECURSIVE ScanLoop(_, _, _, _, _, _)
ScanLoop(mem, to, head, cities, scanned, hi) ==
    IF ~(head < to)
    THEN [fault |-> FALSE, cities |-> cities, scanned |-> scanned,
          head |-> head, hi |-> hi]
    ELSE LET s == FindSemicolon(mem, head + 1)
             semicolon == s.tail
             city == SubSeq(mem, head + 1, semicolon)
             p == parse_i16(mem, semicolon + 1)
         IN  IF s.fault
             THEN [fault |-> TRUE, cities |-> cities, scanned |-> scanned,
                   head |-> head, hi |-> s.hi]
             ELSE IF p.fault
             THEN [fault |-> TRUE, cities |-> cities, scanned |-> scanned,
                   head |-> head, hi |-> p.hi]
             ELSE ScanLoop(mem, to, p.ptr + 1,
                           insert_reading(cities, city, p.reading),
                           Append(scanned, head), p.hi)

process_chunk(mem, from, to) ==
    IF from # 0
    THEN LET k == SkipLine(mem, from)
         IN  IF k.fault
             THEN [fault |-> TRUE, cities |-> EmptyTable, scanned |-> <<>>,
                   head |-> k.head, hi |-> k.hi]
             ELSE ScanLoop(mem, to, k.head, EmptyTable, <<>>, k.hi)
    ELSE ScanLoop(mem, to, from, EmptyTable, <<>>, -1)

\* ------------------------------------------------------------------------
\* Result formatter.
\* ------------------------------------------------------------------------
\* Display of a non-negative integer: its decimal digits.
RECURSIVE Decimal(_)
Decimal(n) ==
    IF n < 10 THEN <<ZERO + n>>
    ELSE Append(Decimal(n \div 10), ZERO + (n % 10))

\* write_i16_as_float with the sign taken from the integer part.
write_i16_as_float_int_sign(value) ==
    LET abs_value == Wrap16(Abs(value))
    IN  (IF value < 0 /\ abs_value \div 10 > 0 THEN <<MINUS>> ELSE <<>>)
        \o Decimal(abs_value \div 10) \o <<DOT>> \o Decimal(abs_value % 10)

\* write_i16_as_float: "{sign}{int}.{frac}" of the value in tenths.
write_i16_as_float(value) ==
    LET abs_value == Wrap16(Abs(value))
    IN  (IF value < 0 THEN <<MINUS>> ELSE <<>>)
        \o Decimal(abs_value \div 10) \o <<DOT>> \o Decimal(abs_value % 10)

\* The mean with the quotient truncated toward zero instead of rounded.
Mean_truncated(entry) ==
    LET q == Abs(entry.sum) \div entry.count
    IN  IF entry.sum < 0 THEN -q ELSE q

\* (entry.sum as f64 / entry.count as f64).round() as i16: f64::round
\* rounds half-way cases away from zero (sum and count are far below 2^53,
\* so the quotient is a tie exactly when 2 * sum is an odd multiple of
\* count).
Mean(entry) ==
    LET q == (2 * Abs(entry.sum) + entry.count) \div (2 * entry.count)
    IN  IF entry.sum < 0 THEN -q ELSE q

\* Ordering of byte slices (Ord for [u8]): lexicographic, a proper prefix
\* first.
RECURSIVE BytesLess(_, _)
BytesLess(a, b) ==
    IF b = <<>> THEN FALSE
    ELSE IF a = <<>> THEN TRUE
    ELSE IF Head(a) # Head(b) THEN Head(a) < Head(b)
    ELSE BytesLess(Tail(a), Tail(b))

\* The keys sorted in descending order.
RECURSIVE SortKeys_descending(_)
SortKeys_descending(keys) ==
    IF keys = {} THEN <<>>
    ELSE LET greatest == CHOOSE k \in keys :
                             \A o \in keys \ {k} : BytesLess(o, k)
         IN  <<greatest>> \o SortKeys_descending(keys \ {greatest})

\* result.sort_unstable_by_key(|x| x.0): the keys in ascending order.
RECURSIVE SortKeys(_)
SortKeys(keys) ==
    IF keys = {} THEN <<>>
    ELSE LET least == CHOOSE k \in keys :
                          \A o \in keys \ {k} : BytesLess(k, o)
         IN  <<least>> \o SortKeys(keys \ {least})

\* One "city=min/mean/max" item of the summary.
RenderEntry(city, entry) ==
    city \o <<EQUALS>> \o write_i16_as_float(entry.min) \o <<SLASH>>
    \o write_i16_as_float(Mean(entry)) \o <<SLASH>>
    \o write_i16_as_float(entry.max)

\* main, lines 33-44: the items in order, a comma after all but the last.
RECURSIVE RenderItems(_, _, _)
RenderItems(cities, order, idx) ==
    IF idx > Len(order) THEN <<>>
    ELSE RenderEntry(order[idx], cities[order[idx]])
         \o (IF idx # Len(order) THEN <<COMMA>> ELSE <<>>)
         \o RenderItems(cities, order, idx + 1)

\* main, lines 26-45: the line written to standard output.
Summary(cities) ==
    <<LBRACE>> \o RenderItems(cities, SortKeys(DOMAIN cities), 1)
    \o <<RBRACE, NL>>

\* ------------------------------------------------------------------------
\* Input files.  A record is a key (non-empty bytes without ';' and '\n')
\* and a reading in tenths; its line is KEY;VALUE\n and a well-formed file
\* is the concatenation of the lines of its records.
\* ------------------------------------------------------------------------
Rec(k, r) == [key |-> k, reading |-> r]

RecordLine(rec) ==
    rec.key \o <<SEMI>> \o write_i16_as_float(rec.reading) \o <<NL>>

RECURSIVE Encode(_)
Encode(recs) ==
    IF recs = <<>> THEN <<>>
    ELSE RecordLine(Head(recs)) \o Encode(Tail(recs))

\* Offset of the first byte of record i (1-based) of the file of recs.
StartOf(recs, i) == Len(Encode(SubSeq(recs, 1, i - 1)))

\* Offset of the terminator of record i.
TerminatorOf(recs, i) == Len(Encode(SubSeq(recs, 1, i))) - 1

\* Longest generated file, in records.
MaxRecords == 3

\* Lines of 6, 7 and 7 bytes: A;1.0  A;-3.2  B;12.5
RecordPool == {Rec(<<65>>, 10), Rec(<<65>>, -32), Rec(<<66>>, 125)}

Generated == UNION {[1 .. n -> RecordPool] : n \in 1 .. MaxRecords}

Hamburg == <<72, 97, 109, 98, 117, 114, 103>>

Berlin == <<66, 101, 114, 108, 105, 110>>

\* Hamburg;12.0  Berlin;-3.2  Hamburg;14.0
HamburgFile == <<Rec(Hamburg, 120), Rec(Berlin, -32), Rec(Hamburg, 140)>>

\* X;0.0
SingleFile == <<Rec(<<88>>, 0)>>

\* Y;-0.1  Y;0.0
HalfFile == <<Rec(<<89>>, -1), Rec(<<89>>, 0)>>

\* AB;1.0  A;2.0  AB;3.0  A;4.0
TrailingFile ==
    <<Rec(<<65, 66>>, 10), Rec(<<65>>, 20), Rec(<<65, 66>>, 30),
      Rec(<<65>>, 40)>>

WellFormed == Generated \cup {HamburgFile, SingleFile, HalfFile, TrailingFile}

\* Worker counts the pipeline is run with: THREADS as built, and the counts
\* the constant "should be adjusted" to.
WorkerCounts == {1, 2, 3, 7, THREADS}

\* ------------------------------------------------------------------------
\* The run of main.
\* ------------------------------------------------------------------------
VARIABLES
    records,   \* the records the file was written from (not program state)
    input,     \* the mapped file: the buffer of input.len() bytes
    threads,   \* the worker count (THREADS)
    phase,     \* "scan" | "done" | "aborted"
    status,    \* per window: "todo" | "done" | "merged" | "fault"
    tab,       \* per window: the table its process_chunk returned, with
               \* the tables merge_results folded into it
    scanned,   \* per window: the offsets of the records it folded
    hi,        \* per window: the highest buffer index it read
    cities,    \* the table reduce_with returned
    output,    \* the bytes written to standard output
    defect,    \* how the file departs from the format (not program state)
    seqs,      \* merge harness: the record sequences <<A, B, C>>
    tabs,      \* merge harness: the tables scanned from A, B and C
    mstep,     \* merge harness: the next operation to apply
    mres,      \* merge harness: the tables the operations returned
    table,     \* table harness: a Statistics Table under insert and merge
    folded,    \* table harness: the records folded into table so far
    num,       \* number harness: a value, its text and what was parsed
    sc         \* stepwise scanner: the locals of one process_chunk call

pipeline ==
    <<records, input, threads, phase, status, tab, scanned, hi,
      cities, output, defect>>

harness == <<seqs, tabs, mstep, mres, table, folded, num, sc>>

vars == <<pipeline, harness>>

Windows == 0 .. threads - 1

\* main, line 18
chunk_size == Len(input) \div threads

\* A window that extends one stride past its end.
To_one_stride_more(thread) == (2 + thread) * chunk_size

\* main, line 21: the bounds handed to process_chunk for a window.
From(thread) == thread * chunk_size

To(thread) == (1 + thread) * chunk_size

Start(recs, bytes, n) ==
    /\ records = recs
    /\ input = bytes
    /\ threads = n
    /\ phase = "scan"
    /\ status = [w \in 0 .. n - 1 |-> "todo"]
    /\ tab = [w \in 0 .. n - 1 |-> EmptyTable]
    /\ scanned = [w \in 0 .. n - 1 |-> <<>>]
    /\ hi = [w \in 0 .. n - 1 |-> -1]
    /\ cities = EmptyTable
    /\ output = <<>>

NoDefect == [at |-> 0, kind |-> "none"]

NoResults ==
    [ab |-> EmptyTable, ba |-> EmptyTable, ab_c |-> EmptyTable,
     a_bc |-> EmptyTable, concat |-> EmptyTable, a_e |-> EmptyTable,
     e_a |-> EmptyTable]

\* The merge harness at rest.
MergeIdle ==
    /\ seqs = <<>>
    /\ tabs = <<>>
    /\ mstep = "idle"
    /\ mres = NoResults

TableIdle ==
    /\ table = EmptyTable
    /\ folded = <<>>

NumIdle == num = [step |-> "idle"]

ScIdle == sc = [pc |-> "idle"]

\* Every harness at rest (while main runs).
HarnessIdle == MergeIdle /\ TableIdle /\ NumIdle /\ ScIdle

Init ==
    /\ \E recs \in WellFormed, n \in WorkerCounts :
           Start(recs, Encode(recs), n)
    /\ defect = NoDefect
    /\ HarnessIdle

\* What may lie after the buffer in memory: nothing mapped, or the bytes
\* ;1.0\n.  A read past the end of the buffer is undefined behaviour and
\* sees any of these.
SlackSet == {<<>>, <<SEMI, 49, DOT, 48, NL>>}

\* One task of the parallel map (line 21): process_chunk on window w.  A
\* read of unmapped memory kills the process.
ProcessChunk(w) ==
    /\ phase = "scan"
    /\ status[w] = "todo"
    /\ \E slack \in SlackSet :
       LET r == process_chunk(input \o slack, From(w), To(w))
       IN  /\ hi' = [hi EXCEPT ![w] = r.hi]
           /\ scanned' = [scanned EXCEPT ![w] = r.scanned]
           /\ IF r.fault
              THEN /\ phase' = "aborted"
                   /\ status' = [status EXCEPT ![w] = "fault"]
                   /\ tab' = tab
              ELSE /\ phase' = phase
                   /\ status' = [status EXCEPT ![w] = "done"]
                   /\ tab' = [tab EXCEPT ![w] = r.cities]
    /\ UNCHANGED <<records, input, threads, cities, output, defect>>
    /\ UNCHANGED harness

\* The window whose table is the right neighbour of the table held at w.
Neighbour(w) ==
    IF \E j \in Windows : j > w /\ status[j] # "merged"
    THEN CHOOSE j \in Windows :
             /\ j > w
             /\ status[j] # "merged"
             /\ \A i \in Windows : (i > w /\ i < j) => status[i] = "merged"
    ELSE -1

\* One step of reduce_with(merge_results) (line 22): two finished tables
\* that are adjacent in window order are merged, the left one first.
Reduce(w) ==
    /\ phase = "scan"
    /\ status[w] = "done"
    /\ Neighbour(w) # -1
    /\ status[Neighbour(w)] = "done"
    /\ tab' = [tab EXCEPT ![w] = merge_results(tab[w], tab[Neighbour(w)]),
                          ![Neighbour(w)] = EmptyTable]
    /\ status' = [status EXCEPT ![Neighbour(w)] = "merged"]
    /\ UNCHANGED <<records, input, threads, phase, scanned, hi,
                   cities, output, defect>>
    /\ UNCHANGED harness

\* main, lines 23-45: the reduction is complete; sort and write the summary.
WriteSummary ==
    /\ phase = "scan"
    /\ status[0] = "done"
    /\ \A w \in Windows \ {0} : status[w] = "merged"
    /\ cities' = tab[0]
    /\ output' = Summary(tab[0])
    /\ phase' = "done"
    /\ UNCHANGED <<records, input, threads, status, tab, scanned, hi,
                   defect>>
    /\ UNCHANGED harness

Next ==
    \/ \E w \in Windows : ProcessChunk(w)
    \/ \E w \in Windows : Reduce(w)
    \/ WriteSummary

Spec == Init /\ [][Next]_vars

\* ------------------------------------------------------------------------
\* What the file says, read off its records (independent of the scanner).
\* ------------------------------------------------------------------------
KeysOf(recs) == {recs[i].key : i \in 1 .. Len(recs)}

IndexesOf(recs, k) == {i \in 1 .. Len(recs) : recs[i].key = k}

RECURSIVE SumOf(_, _)
SumOf(recs, idx) ==
    IF idx = {} THEN 0
    ELSE LET i == CHOOSE j \in idx : TRUE
         IN  recs[i].reading + SumOf(recs, idx \ {i})

LeastOf(recs, idx) ==
    CHOOSE m \in {recs[i].reading : i \in idx} :
        \A i \in idx : m <= recs[i].reading

GreatestOf(recs, idx) ==
    CHOOSE m \in {recs[i].reading : i \in idx} :
        \A i \in idx : m >= recs[i].reading

Exact(recs) ==
    [k \in KeysOf(recs) |->
        Entry(LeastOf(recs, IndexesOf(recs, k)),
              GreatestOf(recs, IndexesOf(recs, k)),
              SumOf(recs, IndexesOf(recs, k)),
              Cardinality(IndexesOf(recs, k)))]

RecordIds == 1 .. Len(records)

\* Window w folded the record that starts at offset s.
Scans(w, s) == \E j \in 1 .. Len(scanned[w]) : scanned[w][j] = s

ScannersOf(s) == {w \in Windows : Scans(w, s)}

\* The offsets folded by windows 0 .. w, in window order.
RECURSIVE ScannedUpTo(_)
ScannedUpTo(w) ==
    IF w < 0 THEN <<>> ELSE ScannedUpTo(w - 1) \o scanned[w]

AllScanned == ScannedUpTo(threads - 1)

\* The record (1-based) that starts at offset s, 0 when none does.
RecordAt(s) ==
    IF \E i \in RecordIds : StartOf(records, i) = s
    THEN CHOOSE i \in RecordIds : StartOf(records, i) = s
    ELSE 0

\* The table the pipeline yields for a file with n workers, the windows
\* folded left to right.
RECURSIVE FoldWindows(_, _, _)
FoldWindows(bytes, n, w) ==
    LET size == Len(bytes) \div n
        t == process_chunk(bytes, w * size, (1 + w) * size).cities
    IN  IF w = 0 THEN t ELSE merge_results(FoldWindows(bytes, n, w - 1), t)

PipelineTable(bytes, n) == FoldWindows(bytes, n, n - 1)

\* {Berlin=-3.2/-3.2/-3.2,Hamburg=12.0/13.0/14.0}
HamburgSummary ==
    <<LBRACE>> \o Berlin
    \o <<EQUALS, 45, 51, 46, 50, SLASH, 45, 51, 46, 50, SLASH, 45, 51, 46,
         50, COMMA>>
    \o Hamburg
    \o <<EQUALS, 49, 50, 46, 48, SLASH, 49, 51, 46, 48, SLASH, 49, 52, 46,
         48, RBRACE, NL>>

\* {X=0.0/0.0/0.0}
SingleSummary ==
    <<LBRACE, 88, EQUALS, 48, 46, 48, SLASH, 48, 46, 48, SLASH, 48, 46, 48,
      RBRACE, NL>>

\* ------------------------------------------------------------------------
\* Claims about the pipeline on well-formed files (Spec).
\* ------------------------------------------------------------------------

\* C1: when the run is over, the final table holds exactly the keys of the
\* file's records, and for each key the exact count, sum, minimum and
\* maximum of its readings.
C1_ExactAggregates == phase = "done" => cities = Exact(records)

\* C2: a record that straddles a split point From(w) (first byte before
\* it, terminator at or after it) is folded exactly once, by a window
\* before that split point and not by window w.
C2_StraddlerFoldedOnce ==
    phase = "done" =>
        \A i \in RecordIds, w \in Windows \ {0} :
            (/\ StartOf(records, i) < From(w)
             /\ From(w) <= TerminatorOf(records, i))
            => /\ Cardinality(ScannersOf(StartOf(records, i))) = 1
               /\ \E v \in ScannersOf(StartOf(records, i)) : v < w
               /\ ~Scans(w, StartOf(records, i))

\* C3: taken in window order, the records the windows fold follow one
\* another without gap or overlap: each folded record is the record right
\* after the one folded before it, wherever the split points fall.
C3_WindowsContiguous ==
    phase = "done" =>
        \A j \in 1 .. Len(AllScanned) - 1 :
            /\ RecordAt(AllScanned[j]) # 0
            /\ RecordAt(AllScanned[j + 1]) = RecordAt(AllScanned[j]) + 1

\* C4: every record whose first byte lies in the trailing range
\* [N * (L / N), L) is folded by the last window.
C4_TrailingRangeScanned ==
    phase = "done" =>
        \A i \in RecordIds :
            StartOf(records, i) >= threads * chunk_size
            => Scans(threads - 1, StartOf(records, i))

\* C5: the final table of a file is the same for every worker count, and
\* the Hamburg / Berlin / Hamburg file prints
\* {Berlin=-3.2/-3.2/-3.2,Hamburg=12.0/13.0/14.0} whatever the count.
C5_SameForEveryWorkerCount ==
    phase = "done" =>
        /\ \A n \in WorkerCounts : cities = PipelineTable(input, n)
        /\ records = HamburgFile => output = HamburgSummary

\* C9: with stride L / N = 0 the run still reports every record, and the
\* file X;0.0 prints {X=0.0/0.0/0.0}.
C9_ZeroStrideReportsAll ==
    (phase = "done" /\ chunk_size = 0) =>
        /\ cities = Exact(records)
        /\ records = SingleFile => output = SingleSummary

\* ------------------------------------------------------------------------
\* The merge reducer on its own (SpecMerge): tables A, B and C are scanned
\* from bounded record sequences, each as a single window over its whole
\* file, and merge_results is applied to them.
\* ------------------------------------------------------------------------
\* Longest record sequence scanned into table A or B.
MaxFold == 2

\* Longest record sequence scanned into table C.
MaxThird == 1

FoldSeqs(n) == UNION {[1 .. k -> RecordPool] : k \in 0 .. n}

\* process_chunk over the whole file of recs: one window [0, L).
ScanWindow(recs) ==
    process_chunk(Encode(recs), 0, Len(Encode(recs))).cities

\* main is not running.
PipelineIdle ==
    /\ records = <<>>
    /\ input = <<>>
    /\ threads = 1
    /\ phase = "idle"
    /\ status = [w \in {0} |-> "todo"]
    /\ tab = [w \in {0} |-> EmptyTable]
    /\ scanned = [w \in {0} |-> <<>>]
    /\ hi = [w \in {0} |-> -1]
    /\ cities = EmptyTable
    /\ output = <<>>
    /\ defect = NoDefect

InitMerge ==
    /\ PipelineIdle
    /\ \E a \in FoldSeqs(MaxFold), b \in FoldSeqs(MaxFold),
          c \in FoldSeqs(MaxThird) :
           /\ seqs = <<a, b, c>>
           /\ tabs = <<ScanWindow(a), ScanWindow(b), ScanWindow(c)>>
    /\ mstep = "pair"
    /\ mres = NoResults
    /\ TableIdle
    /\ NumIdle
    /\ ScIdle

\* merge_results(A, B) and merge_results(B, A).
MergePair ==
    /\ mstep = "pair"
    /\ mres' = [mres EXCEPT !.ab = merge_results(tabs[1], tabs[2]),
                            !.ba = merge_results(tabs[2], tabs[1])]
    /\ mstep' = "tree"
    /\ UNCHANGED <<seqs, tabs, table, folded, num, sc>>
    /\ UNCHANGED pipeline

\* The two trees over A, B, C: (A merge B) merge C and A merge (B merge C).
MergeTree ==
    /\ mstep = "tree"
    /\ mres' = [mres EXCEPT
                   !.ab_c = merge_results(mres.ab, tabs[3]),
                   !.a_bc = merge_results(tabs[1],
                                          merge_results(tabs[2], tabs[3]))]
    /\ mstep' = "concat"
    /\ UNCHANGED <<seqs, tabs, table, folded, num, sc>>
    /\ UNCHANGED pipeline

\* The records of A followed by those of B, scanned as a single window.
ScanConcat ==
    /\ mstep = "concat"
    /\ mres' = [mres EXCEPT !.concat = ScanWindow(seqs[1] \o seqs[2])]
    /\ mstep' = "empty"
    /\ UNCHANGED <<seqs, tabs, table, folded, num, sc>>
    /\ UNCHANGED pipeline

\* merge_results with a table that has no entries, on either side.
MergeEmpty ==
    /\ mstep = "empty"
    /\ mres' = [mres EXCEPT !.a_e = merge_results(tabs[1], EmptyTable),
                            !.e_a = merge_results(EmptyTable, tabs[1])]
    /\ mstep' = "end"
    /\ UNCHANGED <<seqs, tabs, table, folded, num, sc>>
    /\ UNCHANGED pipeline

NextMerge == MergePair \/ MergeTree \/ ScanConcat \/ MergeEmpty

SpecMerge == InitMerge /\ [][NextMerge]_vars

\* C6: merge_results is commutative and associative: merge(A, B) equals
\* merge(B, A), and merge(merge(A, B), C) equals merge(A, merge(B, C)),
\* key sets and min / max / sum / count alike.
C6_MergeCommutesAssociates ==
    /\ mstep \notin {"pair"} => mres.ab = mres.ba
    /\ mstep \notin {"pair", "tree"} => mres.ab_c = mres.a_bc

\* C6 witness: all three tables share a key, A and B differ on it, and
\* both trees have been merged.
C6_Witness ==
    /\ mstep = "end"
    /\ \E k \in DOMAIN tabs[1] :
           /\ k \in DOMAIN tabs[2]
           /\ k \in DOMAIN tabs[3]
           /\ tabs[1][k] # tabs[2][k]
           /\ mres.ab_c[k].count = 3

\* C7: merging the tables scanned from A and from B, in either order,
\* gives the table scanned from A followed by B as a single window.
C7_MergeIsScanOfConcat ==
    mstep \in {"empty", "end"} =>
        /\ mres.ab = mres.concat
        /\ mres.ba = mres.concat

\* C7 witness: A and B both hold two records and share a key with
\* different readings, and the concatenation has been scanned.
C7_Witness ==
    /\ mstep = "end"
    /\ Len(seqs[1]) = 2
    /\ Len(seqs[2]) = 2
    /\ \E k \in DOMAIN mres.concat :
           /\ k \in DOMAIN tabs[1]
           /\ k \in DOMAIN tabs[2]
           /\ mres.concat[k].min < mres.concat[k].max

\* C8: merging a table with an empty table, in either argument position,
\* yields the table unchanged.
C8_MergeWithEmpty ==
    mstep = "end" => (mres.a_e = tabs[1] /\ mres.e_a = tabs[1])

\* C8 witness: a table of two keys has been merged with the empty table.
C8_Witness ==
    /\ mstep = "end"
    /\ Cardinality(DOMAIN tabs[1]) = 2
    /\ mres.e_a = tabs[1]

\* ------------------------------------------------------------------------
\* Files that break the format (SpecMalformed): one record of a well-formed
\* file is damaged, and main runs on the result.
\* ------------------------------------------------------------------------
\* Longest damaged file, in records.
MaxBadRecords == 2

\* Lines A;1.0 and B;12.5
BadPool == {Rec(<<65>>, 10), Rec(<<66>>, 125)}

DefectKinds == <<"non_digit", "extra_digit", "no_terminator", "no_delimiter">>

\* The value text with its first digit replaced by 'x'.
NonDigitValue(reading) ==
    LET text == write_i16_as_float(reading)
        at == IF text[1] = MINUS THEN 2 ELSE 1
    IN  [text EXCEPT ![at] = 120]

BadLine(rec, kind) ==
    CASE kind = "no_delimiter" ->
            rec.key \o write_i16_as_float(rec.reading) \o <<NL>>
      [] kind = "non_digit" ->
            rec.key \o <<SEMI>> \o NonDigitValue(rec.reading) \o <<NL>>
      [] kind = "extra_digit" ->
            rec.key \o <<SEMI>> \o write_i16_as_float(rec.reading)
            \o <<53, NL>>
      [] kind = "no_terminator" ->
            rec.key \o <<SEMI>> \o write_i16_as_float(rec.reading)

Damaged(recs, at, kind) ==
    Encode(SubSeq(recs, 1, at - 1)) \o BadLine(recs[at], kind)
    \o Encode(SubSeq(recs, at + 1, Len(recs)))

BadWorkerCounts == {1, 2, THREADS}

InitMalformed ==
    /\ \E k \in DOMAIN DefectKinds, n \in 1 .. MaxBadRecords :
          \E recs \in [1 .. n -> BadPool], at \in 1 .. n,
             workers \in BadWorkerCounts :
              /\ DefectKinds[k] = "no_terminator" => at = n
              /\ Start(recs, Damaged(recs, at, DefectKinds[k]), workers)
              /\ defect = [at |-> at, kind |-> DefectKinds[k]]
    /\ HarnessIdle

SpecMalformed == InitMalformed /\ [][Next]_vars

\* C10: a malformed record is fatal for the whole run: no window folds it
\* (the parser returns no number for it and no entry is updated from it)
\* and nothing is written to standard output.
C10_MalformedIsFatal ==
    defect.kind # "none" =>
        /\ \A w \in Windows : ~Scans(w, StartOf(records, defect.at))
        /\ output = <<>>

\* ------------------------------------------------------------------------
\* A Statistics Table on its own (SpecTable): starting empty, readings are
\* inserted and scanned tables are merged into it, in any order.  folded
\* remembers every record that went in.
\* ------------------------------------------------------------------------
\* Most records folded into the table.
MaxFolded == 5

RECURSIVE WithKey(_, _)
WithKey(recs, k) ==
    IF recs = <<>> THEN <<>>
    ELSE IF Head(recs).key = k THEN <<Head(recs)>> \o WithKey(Tail(recs), k)
    ELSE WithKey(Tail(recs), k)

InitTable ==
    /\ PipelineIdle
    /\ MergeIdle
    /\ NumIdle
    /\ ScIdle
    /\ table = EmptyTable
    /\ folded = <<>>

\* insert_reading(&mut cities, city, reading)
InsertReading(rec) ==
    /\ Len(folded) < MaxFolded
    /\ table' = insert_reading(table, rec.key, rec.reading)
    /\ folded' = Append(folded, rec)
    /\ UNCHANGED <<seqs, tabs, mstep, mres, num, sc>>
    /\ UNCHANGED pipeline

\* upsert_entry(&mut cities, city, entry) with an entry of a scanned table.
UpsertEntry(recs, city) ==
    /\ Len(folded) + Len(recs) <= MaxFolded
    /\ city \in DOMAIN ScanWindow(recs)
    /\ table' = upsert_entry(table, city, ScanWindow(recs)[city])
    /\ folded' = folded \o WithKey(recs, city)
    /\ UNCHANGED <<seqs, tabs, mstep, mres, num, sc>>
    /\ UNCHANGED pipeline

\* merge_results(cities, other)
MergeInto(recs) ==
    /\ Len(folded) + Len(recs) <= MaxFolded
    /\ table' = merge_results(table, ScanWindow(recs))
    /\ folded' = folded \o recs
    /\ UNCHANGED <<seqs, tabs, mstep, mres, num, sc>>
    /\ UNCHANGED pipeline

\* merge_results(other, cities)
MergeFrom(recs) ==
    /\ Len(folded) + Len(recs) <= MaxFolded
    /\ table' = merge_results(ScanWindow(recs), table)
    /\ folded' = recs \o folded
    /\ UNCHANGED <<seqs, tabs, mstep, mres, num, sc>>
    /\ UNCHANGED pipeline

NextTable ==
    \/ \E rec \in RecordPool : InsertReading(rec)
    \/ \E recs \in FoldSeqs(MaxFold) :
           \E city \in KeysOf(recs) : UpsertEntry(recs, city)
    \/ \E recs \in FoldSeqs(MaxFold) : MergeInto(recs)
    \/ \E recs \in FoldSeqs(MaxFold) : MergeFrom(recs)

SpecTable == InitTable /\ [][NextTable]_vars

\* C11: after any sequence of insert_reading, upsert_entry and
\* merge_results, every entry has count >= 1 and min <= max, min and max
\* bound every reading folded into it, sum is the exact sum of those
\* readings and count their number; a key with one reading has
\* min = max = sum = reading and count = 1; and a key has an entry exactly
\* when a reading for it was folded in.
C11_EntryInvariants ==
    /\ DOMAIN table = KeysOf(folded)
    /\ \A k \in DOMAIN table :
           /\ table[k].count >= 1
           /\ table[k].min <= table[k].max
           /\ \A i \in IndexesOf(folded, k) :
                  /\ table[k].min <= folded[i].reading
                  /\ folded[i].reading <= table[k].max
           /\ table[k].sum = SumOf(folded, IndexesOf(folded, k))
           /\ table[k].count = Cardinality(IndexesOf(folded, k))
           /\ \A i \in IndexesOf(folded, k) :
                  IndexesOf(folded, k) = {i}
                  => table[k] = Entry(folded[i].reading, folded[i].reading,
                                      folded[i].reading, 1)

\* C11 witness: a table of two keys, one of them with three readings of
\* different values and the other with exactly one.
C11_Witness ==
    /\ Len(folded) = 4
    /\ Cardinality(DOMAIN table) = 2
    /\ \E k \in DOMAIN table : table[k].count = 3 /\ table[k].min < table[k].max
    /\ \E k \in DOMAIN table : table[k].count = 1

\* ------------------------------------------------------------------------
\* Scheduling of the scanners and of the reduction (Spec).
\* ------------------------------------------------------------------------
\* The last window of the block of adjacent windows whose tables have been
\* merged into the table held at w.
BlockEnd(w) == IF Neighbour(w) = -1 THEN threads - 1 ELSE Neighbour(w) - 1

\* Windows a .. b scanned one after the other and merged left to right.
RECURSIVE FoldBlock(_, _)
FoldBlock(a, b) ==
    LET t == process_chunk(input, From(b), To(b)).cities
    IN  IF b = a THEN t ELSE merge_results(FoldBlock(a, b - 1), t)

\* A step that completes the scan of window w.
Scanned(w) == status[w] = "todo" /\ status'[w] # "todo"

\* C12: whatever the order in which the scanners run and complete and the
\* order in which the reducer combines their tables, every table it holds
\* is the one obtained by scanning its windows in file order, and so is the
\* final table; a scanner's step leaves the input buffer and every other
\* scanner's table as they were.
C12_ScheduleIndependent ==
    /\ [](/\ \A w \in Windows :
                status[w] = "done" => tab[w] = FoldBlock(w, BlockEnd(w))
          /\ phase = "done" => cities = FoldBlock(0, threads - 1))
    /\ [][\A w \in Windows :
            Scanned(w) =>
                /\ input' = input
                /\ \A v \in Windows \ {w} :
                       /\ tab'[v] = tab[v]
                       /\ scanned'[v] = scanned[v]
                       /\ hi'[v] = hi[v]]_vars

\* C12 witness: three workers; the last two windows were scanned and
\* combined while the first one is still to be scanned, and the combined
\* table holds a key read in both windows.
C12_Witness ==
    /\ threads = 3
    /\ status = [w \in Windows |->
                    IF w = 0 THEN "todo" ELSE IF w = 1 THEN "done"
                    ELSE "merged"]
    /\ scanned[1] # <<>>
    /\ scanned[2] # <<>>
    /\ \E k \in DOMAIN tab[1] : tab[1][k].count = 2

\* ------------------------------------------------------------------------
\* The number routines on their own (SpecNumber): parse_i16 on readings
\* placed in a buffer, write_i16_as_float on values and back through
\* parse_i16, and the mean of one key's readings as the summary shows it.
\* ------------------------------------------------------------------------
\* Most integer digits of a reading.
MaxIntDigits == 2
\* Largest index a reading is placed at.
MaxOffset == 3
\* Largest magnitude, in tenths, of a value written and parsed back.
MaxTenths == 999
\* Most readings of the key whose mean is taken.
MaxMeanCount == 3

Digits == 0 .. 9

DigitSeqs == UNION {[1 .. n -> Digits] : n \in 1 .. MaxIntDigits}

\* Indexes a reading is placed at: the start of the buffer, or after a key
\* and its semicolon.
Offsets == {0} \cup (2 .. MaxOffset)

\* Y
KeyY == <<89>>

\* Readings of the key whose mean is taken.
MeanPool == {Rec(KeyY, -32), Rec(KeyY, -1), Rec(KeyY, 0), Rec(KeyY, 1),
             Rec(KeyY, 125)}

MeanSeqs == UNION {[1 .. n -> MeanPool] : n \in 1 .. MaxMeanCount}

\* The text -?d+.d of the given sign and digits.
ReadingText(negative, ints, frac) ==
    (IF negative THEN <<MINUS>> ELSE <<>>)
    \o [i \in 1 .. Len(ints) |-> ZERO + ints[i]] \o <<DOT, ZERO + frac>>

\* p bytes in front of a reading: a key of 'A's and the semicolon.
KeyPrefix(p) == [i \in 1 .. p |-> IF i = p THEN SEMI ELSE 65]

\* B;0.0 and its terminator.
NextLine == <<66, SEMI, ZERO, DOT, ZERO, NL>>

InitNumber ==
    /\ PipelineIdle
    /\ MergeIdle
    /\ TableIdle
    /\ ScIdle
    /\ NumIdle

\* parse_i16(input, &mut ptr) with ptr = p on a reading that starts at p,
\* and process_chunk over the buffer when the reading is part of a record.
ParseReading(negative, ints, frac, p) ==
    LET text == ReadingText(negative, ints, frac)
        mem == KeyPrefix(p) \o text \o <<NL>> \o NextLine
        r == parse_i16(mem, p)
    IN  /\ NumIdle
        /\ num' = [step |-> "parsed", mem |-> mem, at |-> p,
                   negative |-> negative, ints |-> ints, frac |-> frac,
                   fault |-> r.fault, reading |-> r.reading, ptr |-> r.ptr,
                   scanned |-> IF p = 0 THEN <<>>
                               ELSE process_chunk(mem, 0, Len(mem)).scanned]
        /\ UNCHANGED <<seqs, tabs, mstep, mres, table, folded, sc>>
        /\ UNCHANGED pipeline

\* write_i16_as_float(&mut buffer, value)
WriteValue(value) ==
    /\ NumIdle
    /\ num' = [step |-> "written", value |-> value,
               text |-> write_i16_as_float(value)]
    /\ UNCHANGED <<seqs, tabs, mstep, mres, table, folded, sc>>
    /\ UNCHANGED pipeline

\* parse_i16 on the text just written, followed by a newline.
ParseWritten ==
    /\ num.step = "written"
    /\ LET r == parse_i16(num.text \o <<NL>>, 0)
       IN  num' = [step |-> "reparsed", value |-> num.value,
                   text |-> num.text, fault |-> r.fault,
                   reading |-> r.reading, ptr |-> r.ptr]
    /\ UNCHANGED <<seqs, tabs, mstep, mres, table, folded, sc>>
    /\ UNCHANGED pipeline

\* main, lines 33-44, on the table scanned from the records of one key.
SummariseKey(recs) ==
    LET cs == ScanWindow(recs)
    IN  /\ NumIdle
        /\ num' = [step |-> "mean", recs |-> recs, entry |-> cs[KeyY],
                   mean |-> Mean(cs[KeyY]),
                   text |-> write_i16_as_float(Mean(cs[KeyY])),
                   summary |-> Summary(cs)]
        /\ UNCHANGED <<seqs, tabs, mstep, mres, table, folded, sc>>
        /\ UNCHANGED pipeline

NextNumber ==
    \/ \E negative \in BOOLEAN, ints \in DigitSeqs, frac \in Digits,
          p \in Offsets : ParseReading(negative, ints, frac, p)
    \/ \E value \in (-MaxTenths) .. MaxTenths : WriteValue(value)
    \/ ParseWritten
    \/ \E recs \in MeanSeqs \cup {HalfFile} : SummariseKey(recs)

SpecNumber == InitNumber /\ [][NextNumber]_vars

\* The number a sequence of decimal digits (values 0 .. 9) denotes.
RECURSIVE DigitsValue(_)
DigitsValue(ds) ==
    IF ds = <<>> THEN 0
    ELSE 10 * DigitsValue(SubSeq(ds, 1, Len(ds) - 1)) + ds[Len(ds)]

\* m is sum / count rounded to the nearest integer, a tie going to the
\* neighbour farther from zero.
RoundsHalfAway(sum, count, m) ==
    LET twice == 2 * Abs(sum - m * count)
    IN  /\ twice <= count
        /\ twice = count => Abs(m) * count > Abs(sum)

\* {Y=-0.1/-0.1/0.0}
HalfSummary ==
    <<LBRACE, 89, EQUALS, MINUS, ZERO, DOT, ZERO + 1, SLASH, MINUS, ZERO, DOT,
      ZERO + 1, SLASH, ZERO, DOT, ZERO, RBRACE, NL>>

\* -0.0
NegativeZero == <<MINUS, ZERO, DOT, ZERO>>

\* C13: the mean shown for a key is sum / count, in tenths, rounded half
\* away from zero; a mean that rounds to zero from below is shown as 0.0,
\* never -0.0; the records Y;-0.1 and Y;0.0 give {Y=-0.1/-0.1/0.0}.
C13_MeanRoundsHalfAway ==
    num.step = "mean" =>
        LET sum == SumOf(num.recs, 1 .. Len(num.recs))
            count == Len(num.recs)
        IN  /\ RoundsHalfAway(sum, count, num.mean)
            /\ num.text # NegativeZero
            /\ (sum < 0 /\ 2 * Abs(sum) < count) => num.text = <<ZERO, DOT, ZERO>>
            /\ num.recs = HalfFile => num.summary = HalfSummary

\* C13 witness: the mean of Y;-0.1 and Y;0.0, a tie below zero.
C13_Witness ==
    /\ num.step = "mean"
    /\ num.recs = HalfFile
    /\ num.entry = Entry(-1, 0, -1, 2)
    /\ num.mean = -1

\* C15: parse_i16 on a reading -?d+.d that starts at index p returns its
\* value in tenths, negated under a leading '-', and leaves the read head
\* on the terminator after the fractional digit, so that process_chunk
\* continues at the first byte of the next record.
C15_ParseReadingAndAdvance ==
    num.step = "parsed" =>
        LET tenths == 10 * DigitsValue(num.ints) + num.frac
            length == (IF num.negative THEN 1 ELSE 0) + Len(num.ints) + 2
        IN  /\ ~num.fault
            /\ num.reading = IF num.negative THEN -tenths ELSE tenths
            /\ num.ptr = num.at + length
            /\ ByteAt(num.mem, num.ptr) = NL
            /\ SubSeq(num.mem, num.ptr + 2, Len(num.mem)) = NextLine
            /\ num.at > 0 => num.scanned = <<0, num.ptr + 1>>

\* C15 witness: -90.7 parsed at index 3 of AA;-90.7, a second record behind.
C15_Witness ==
    /\ num.step = "parsed"
    /\ num.at = 3
    /\ num.negative
    /\ num.ints = <<9, 0>>
    /\ num.frac = 7
    /\ num.reading = -907
    /\ num.ptr = 8
    /\ num.scanned = <<0, 9>>

\* C16: write_i16_as_float renders a value v in tenths as an optional '-'
\* (present exactly when v < 0), the decimal digits of |v| div 10, '.', and
\* the digit |v| mod 10, and parse_i16 on that text returns v.
C16_WriteParseRoundTrip ==
    /\ num.step \in {"written", "reparsed"} =>
          LET v == num.value
              body == IF v < 0 THEN Tail(num.text) ELSE num.text
              int == [i \in 1 .. Len(body) - 2 |-> body[i] - ZERO]
          IN  /\ Len(body) >= 3
              /\ v < 0 => Head(num.text) = MINUS
              /\ \A i \in DOMAIN int : int[i] \in Digits
              /\ Len(int) > 1 => int[1] # 0
              /\ DigitsValue(int) = Abs(v) \div 10
              /\ body[Len(body) - 1] = DOT
              /\ body[Len(body)] = ZERO + (Abs(v) % 10)
    /\ num.step = "reparsed" =>
          /\ ~num.fault
          /\ num.reading = num.value
          /\ num.ptr = Len(num.text)

\* C16 witness: -1 is written as -0.1 and parsed back as -1.
C16_Witness ==
    /\ num.step = "reparsed"
    /\ num.value = -1
    /\ num.text = <<MINUS, ZERO, DOT, ZERO + 1>>
    /\ num.reading = -1

\* ------------------------------------------------------------------------
\* The summary line, read back (Spec).
\* ------------------------------------------------------------------------
\* The pieces of bytes between occurrences of sep.
RECURSIVE Split(_, _)
Split(bytes, sep) ==
    IF \E i \in 1 .. Len(bytes) : bytes[i] = sep
    THEN LET i == CHOOSE j \in 1 .. Len(bytes) :
                      /\ bytes[j] = sep
                      /\ \A h \in 1 .. j - 1 : bytes[h] # sep
         IN  <<SubSeq(bytes, 1, i - 1)>>
             \o Split(SubSeq(bytes, i + 1, Len(bytes)), sep)
    ELSE <<bytes>>

Occurrences(bytes, b) == Cardinality({i \in 1 .. Len(bytes) : bytes[i] = b})

\* a sorts before b: at the first index where they differ a has the smaller
\* byte, or a ends there and b does not.
LexLess(a, b) ==
    \E i \in 1 .. Len(b) :
        /\ Len(a) >= i - 1
        /\ \A h \in 1 .. i - 1 : a[h] = b[h]
        /\ Len(a) = i - 1 \/ a[i] < b[i]

\* The value in tenths a rendered number denotes.
ValueOf(text) == parse_i16(text \o <<NL>>, 0).reading

\* The item is key=min/mean/max of the key's entry.
ItemShows(item, table_) ==
    LET parts == Split(item, EQUALS)
        key == parts[1]
        values == Split(parts[2], SLASH)
    IN  /\ Len(parts) = 2
        /\ key \in DOMAIN table_
        /\ Len(values) = 3
        /\ ValueOf(values[1]) = table_[key].min
        /\ RoundsHalfAway(table_[key].sum, table_[key].count,
                          ValueOf(values[2]))
        /\ ValueOf(values[3]) = table_[key].max

KeyOfItem(item) == Split(item, EQUALS)[1]

\* C14: the output is one pair of braces around the items key=min/mean/max
\* of the final table, one item per key, separated by single commas with
\* none trailing, the keys strictly ascending in byte-lexicographic order
\* (the table itself has no order).
C14_OutputSortedAndComplete ==
    phase = "done" =>
        LET body == SubSeq(output, 2, Len(output) - 2)
            items == IF body = <<>> THEN <<>> ELSE Split(body, COMMA)
        IN  /\ Len(output) >= 3
            /\ output[1] = LBRACE
            /\ output[Len(output) - 1] = RBRACE
            /\ output[Len(output)] = NL
            /\ Occurrences(output, LBRACE) = 1
            /\ Occurrences(output, RBRACE) = 1
            /\ Len(items) = Cardinality(DOMAIN cities)
            /\ \A i \in 1 .. Len(items) :
                   /\ items[i] # <<>>
                   /\ ItemShows(items[i], cities)
            /\ {KeyOfItem(items[i]) : i \in 1 .. Len(items)} = DOMAIN cities
            /\ \A i \in 1 .. Len(items) - 1 :
                   LexLess(KeyOfItem(items[i]), KeyOfItem(items[i + 1]))

\* C14 witness: AB;1.0 A;2.0 AB;3.0 A;4.0 summarised by one worker: two
\* keys, A a proper prefix of AB and read after it.
C14_Witness ==
    /\ phase = "done"
    /\ records = TrailingFile
    /\ threads = 1
    /\ DOMAIN cities = {<<65>>, <<65, 66>>}
    /\ Len(Split(output, COMMA)) = 2

\* ------------------------------------------------------------------------
\* Implicit properties of the pipeline on well-formed files (Spec).
\* ------------------------------------------------------------------------
\* No two windows folded a record that starts at the same offset.
ScannedDisjoint ==
    \A w \in Windows : \A v \in Windows \ {w} :
        \A s \in 0 .. Len(input) : ~(Scans(w, s) /\ Scans(v, s))

\* No entry of the final table counts more readings than the file has for
\* its key.
CountNotAbove ==
    phase = "done" =>
        \A k \in DOMAIN cities :
            cities[k].count <= Cardinality(IndexesOf(records, k))

\* No entry of the final table has a sum above the sum of the file's
\* readings for its key.
SumNotAbove ==
    phase = "done" =>
        \A k \in DOMAIN cities :
            cities[k].sum <= SumOf(records, IndexesOf(records, k))

\* C17: no record is folded by more than one window: the sets of record
\* start offsets scanned by any two windows of main's partitioning are
\* disjoint, and so no key's count or sum in the final table exceeds the
\* true value.
C17_NoRecordFoldedTwice ==
    /\ ScannedDisjoint
    /\ CountNotAbove
    /\ SumNotAbove

\* C18: on a well-formed file, for every window of main's partitioning,
\* every index read by process_chunk and parse_i16 (newline skip, ';'
\* search, digit reads including ptr + 1) lies within [0, L): no scan reads
\* at or past the end of the buffer.
C18_ReadsWithinBuffer ==
    /\ phase # "aborted"
    /\ \A w \in Windows :
           /\ status[w] # "fault"
           /\ hi[w] >= -1
           /\ hi[w] < Len(input)

\* C18 witness: a window other than the first skipped to a newline, folded
\* records up to the end of the file and read the last fractional digit,
\* one byte before the final newline.
C18_Witness ==
    \E w \in Windows \ {0} :
        /\ status[w] = "done"
        /\ To(w) = Len(input)
        /\ scanned[w] # <<>>
        /\ hi[w] = Len(input) - 2

\* The three values, in tenths, an item key=min/mean/max shows.
ValuesOfItem(item) ==
    LET values == Split(Split(item, EQUALS)[2], SLASH)
    IN  <<ValueOf(values[1]), ValueOf(values[2]), ValueOf(values[3])>>

\* C19: for every key of the final table the mean shown lies between the
\* minimum and the maximum shown: min <= round(sum / count) <= max in
\* tenths.
C19_MeanBetweenMinAndMax ==
    phase = "done" =>
        /\ \A k \in DOMAIN cities :
               /\ cities[k].min <= Mean(cities[k])
               /\ Mean(cities[k]) <= cities[k].max
        /\ LET body == SubSeq(output, 2, Len(output) - 2)
               items == IF body = <<>> THEN <<>> ELSE Split(body, COMMA)
           IN  \A i \in 1 .. Len(items) :
                   /\ ValuesOfItem(items[i])[1] <= ValuesOfItem(items[i])[2]
                   /\ ValuesOfItem(items[i])[2] <= ValuesOfItem(items[i])[3]

\* C19 witness: Y;-0.1 Y;0.0 summarised: the mean -0.05 is rounded away
\* from zero onto the minimum -0.1, below the maximum 0.0.
C19_Witness ==
    /\ phase = "done"
    /\ records = HalfFile
    /\ cities = (KeyY :> Entry(-1, 0, -1, 2))
    /\ Mean(cities[KeyY]) = -1
    /\ output = HalfSummary

\* ------------------------------------------------------------------------
\* process_chunk and parse_i16 one loop iteration at a time (SpecSteps):
\* the scanners of all windows run interleaved, sc[w] holding the locals of
\* the scanner of window w, and the reduction and the summary follow as in
\* Spec.
\* ------------------------------------------------------------------------
\* Most records of a file scanned step by step.
MaxStepRecords == 2
\* Most workers of a step-by-step run.
MaxStepWorkers == 3

StepFiles ==
    UNION {[1 .. n -> RecordPool] : n \in 1 .. MaxStepRecords}
    \cup {HalfFile}

StepWorkerCounts == 1 .. MaxStepWorkers

\* The locals of process_chunk before its first statement.
ScannerLocals ==
    [pc |-> "start", head |-> 0, tail |-> 0, city |-> <<>>,
     negative |-> FALSE, reading |-> 0, cities |-> EmptyTable]

InitSteps ==
    /\ MergeIdle
    /\ TableIdle
    /\ NumIdle
    /\ defect = NoDefect
    /\ \E recs \in StepFiles, n \in StepWorkerCounts :
           /\ Start(recs, Encode(recs), n)
           /\ sc = [w \in 0 .. n - 1 |-> ScannerLocals]

\* What an unchecked read of index i yields: the byte when i is inside the
\* buffer; otherwise the process dies (-1) or some byte comes back.
Outcomes(i) ==
    IF Mapped(input, i) THEN {ByteAt(input, i)}
    ELSE {-1, NL, SEMI, DOT, ZERO + 1}

\* The scanner of window w is at pc.
At(w, pc) == phase = "scan" /\ status[w] = "todo" /\ sc[w].pc = pc

\* The process dies in the scanner of window w.
Dies(w) ==
    /\ phase' = "aborted"
    /\ status' = [status EXCEPT ![w] = "fault"]
    /\ UNCHANGED <<sc, tab, scanned>>

\* The scanner of window w goes on with new locals.
GoesOn(w, locals) ==
    /\ sc' = [sc EXCEPT ![w] = locals]
    /\ UNCHANGED <<phase, status, tab, scanned>>

Reads(w, i) == hi' = [hi EXCEPT ![w] = Max2(@, i)]

\* The newline skip with the read head left where it is.
SkipStep_stay(head) == head

\* process_chunk, line 58: head += 1
SkipStep(head) == head + 1

\* process_chunk, lines 52 and 56: head = from; if head != 0
Enter(w) ==
    /\ At(w, "start")
    /\ GoesOn(w, [sc[w] EXCEPT !.head = From(w),
                               !.pc = IF From(w) # 0 THEN "skip" ELSE "loop"])
    /\ UNCHANGED <<records, input, threads, hi, cities, output, defect>>
    /\ UNCHANGED <<seqs, tabs, mstep, mres, table, folded, num>>

\* process_chunk, lines 57-60: one test of the newline skip; head += 1
\* either inside the loop or after it.
SkipByte(w) ==
    /\ At(w, "skip")
    /\ Reads(w, sc[w].head)
    /\ \E byte \in Outcomes(sc[w].head) :
           IF byte = -1 THEN Dies(w)
           ELSE IF byte # NL
                THEN GoesOn(w, [sc[w] EXCEPT !.head = SkipStep(@)])
                ELSE GoesOn(w, [sc[w] EXCEPT !.head = @ + 1, !.pc = "loop"])
    /\ UNCHANGED <<records, input, threads, cities, output, defect>>
    /\ UNCHANGED <<seqs, tabs, mstep, mres, table, folded, num>>

\* process_chunk, lines 67-69: while head < to { tail = head + 1
LoopTest(w) ==
    /\ At(w, "loop")
    /\ IF sc[w].head < To(w)
       THEN GoesOn(w, [sc[w] EXCEPT !.tail = sc[w].head + 1, !.pc = "semi"])
       ELSE GoesOn(w, [sc[w] EXCEPT !.pc = "return"])
    /\ UNCHANGED <<records, input, threads, hi, cities, output, defect>>
    /\ UNCHANGED <<seqs, tabs, mstep, mres, table, folded, num>>

\* process_chunk, lines 72-82: one test of the semicolon search; at the
\* semicolon the city is sliced and tail steps onto the reading.
FindSemi(w) ==
    /\ At(w, "semi")
    /\ Reads(w, sc[w].tail)
    /\ \E byte \in Outcomes(sc[w].tail) :
           IF byte = -1 THEN Dies(w)
           ELSE IF byte # SEMI
                THEN GoesOn(w, [sc[w] EXCEPT !.tail = @ + 1])
                ELSE GoesOn(w, [sc[w] EXCEPT
                         !.city = SubSeq(input, sc[w].head + 1, sc[w].tail),
                         !.tail = @ + 1, !.pc = "sign"])
    /\ UNCHANGED <<records, input, threads, cities, output, defect>>
    /\ UNCHANGED <<seqs, tabs, mstep, mres, table, folded, num>>

\* parse_i16, lines 183-189: the sign test and reading = 0.
Sign(w) ==
    /\ At(w, "sign")
    /\ Reads(w, sc[w].tail)
    /\ \E byte \in Outcomes(sc[w].tail) :
           IF byte = -1 THEN Dies(w)
           ELSE GoesOn(w, [sc[w] EXCEPT
                    !.negative = (byte = MINUS),
                    !.tail = IF byte = MINUS THEN @ + 1 ELSE @,
                    !.reading = 0, !.pc = "digit"])
    /\ UNCHANGED <<records, input, threads, cities, output, defect>>
    /\ UNCHANGED <<seqs, tabs, mstep, mres, table, folded, num>>

\* parse_i16, lines 190-204: one iteration of the digit loop.
Digit(w) ==
    /\ At(w, "digit")
    /\ \E byte \in Outcomes(sc[w].tail) :
           LET r10 == Wrap16(sc[w].reading * 10)
           IN  IF byte = -1 THEN Reads(w, sc[w].tail) /\ Dies(w)
               ELSE IF byte # DOT
               THEN /\ Reads(w, sc[w].tail)
                    /\ GoesOn(w, [sc[w] EXCEPT
                           !.reading = Wrap16(r10 + (byte - ZERO)),
                           !.tail = @ + 1])
               ELSE /\ Reads(w, sc[w].tail + 1)
                    /\ \E frac \in Outcomes(sc[w].tail + 1) :
                           IF frac = -1 THEN Dies(w)
                           ELSE GoesOn(w, [sc[w] EXCEPT
                                    !.reading = Wrap16(r10 + (frac - ZERO)),
                                    !.tail = @ + 2, !.pc = "fold"])
    /\ UNCHANGED <<records, input, threads, cities, output, defect>>
    /\ UNCHANGED <<seqs, tabs, mstep, mres, table, folded, num>>

\* parse_i16, lines 206-210, and process_chunk, lines 88-91: the sign is
\* applied, the reading inserted and head moved behind the terminator.
Fold(w) ==
    /\ At(w, "fold")
    /\ LET reading == IF sc[w].negative THEN Wrap16(sc[w].reading * (-1))
                      ELSE sc[w].reading
       IN  sc' = [sc EXCEPT ![w] =
                     [@ EXCEPT !.cities = insert_reading(@, sc[w].city, reading),
                               !.head = sc[w].tail + 1,
                               !.pc = "loop"]]
    /\ scanned' = [scanned EXCEPT ![w] = Append(@, sc[w].head)]
    /\ UNCHANGED <<records, input, threads, phase, status, tab, hi, cities,
                   output, defect>>
    /\ UNCHANGED <<seqs, tabs, mstep, mres, table, folded, num>>

\* process_chunk, line 94: the table is returned to the reduction.
Return(w) ==
    /\ At(w, "return")
    /\ tab' = [tab EXCEPT ![w] = sc[w].cities]
    /\ status' = [status EXCEPT ![w] = "done"]
    /\ sc' = [sc EXCEPT ![w] = [@ EXCEPT !.pc = "returned"]]
    /\ UNCHANGED <<records, input, threads, phase, scanned, hi, cities,
                   output, defect>>
    /\ UNCHANGED <<seqs, tabs, mstep, mres, table, folded, num>>

NextSteps ==
    \/ \E w \in Windows : Enter(w)
    \/ \E w \in Windows : SkipByte(w)
    \/ \E w \in Windows : LoopTest(w)
    \/ \E w \in Windows : FindSemi(w)
    \/ \E w \in Windows : Sign(w)
    \/ \E w \in Windows : Digit(w)
    \/ \E w \in Windows : Fold(w)
    \/ \E w \in Windows : Return(w)
    \/ \E w \in Windows : Reduce(w)
    \/ WriteSummary

SpecSteps == InitSteps /\ [][NextSteps]_vars

\* The worker threads run their scanners to the end and main blocks in the
\* reduction until the tables are there: a step that can be taken is
\* eventually taken.
SpecStepsFair == SpecSteps /\ WF_vars(NextSteps)

\* In a step of the scanner of window w that is one iteration of a loop the
\* read head moves forward.
HeadAdvances(w) ==
    /\ SkipByte(w) /\ phase' = "scan" => sc'[w].head > sc[w].head
    /\ FindSemi(w) /\ phase' = "scan" => sc'[w].tail > sc[w].tail
    /\ Digit(w) /\ phase' = "scan" => sc'[w].tail > sc[w].tail
    /\ Fold(w) => sc'[w].head > sc[w].head

StepsAgree ==
    \A w \in Windows :
        sc[w].pc = "returned" =>
            LET r == process_chunk(input, From(w), To(w))
            IN  /\ ~r.fault
                /\ sc[w].cities = r.cities
                /\ scanned[w] = r.scanned
                /\ hi[w] = r.hi
                /\ sc[w].head = r.head

====
